---- MODULE Spec2Model ----
(***************************************************************************)
(* Model of the CGW surface viewer: the mesh builder Model.build, the GPU  *)
(* upload and draw of model.js, and the event handlers of main.js.         *)
(*                                                                         *)
(* Two specifications are given.                                           *)
(*   Spec     one Model object whose typed arrays live in a heap, with     *)
(*            every element of every buffer computed as build computes it. *)
(*   SpecApp  the page of main.js (load, slider input, animation frame)    *)
(*            with resolutions up to and beyond the 16-bit index limit;    *)
(*            a typed array is held as its element kind and its length.    *)
(*                                                                         *)
(* Numbers.  JavaScript doubles and Float32Array elements are held as      *)
(* records [k, n, d2]: k = "fin" is the real n / sqrt(d2), k = "inf" is    *)
(* +Infinity or -Infinity by the sign n, k = "nan" is NaN.  Coordinates    *)
(* are fixed point, FX units to 1.0; Math.sin, Math.cos and Math.exp are   *)
(* evaluated by rational approximations rounded to that grid, exact at the *)
(* multiples of a quarter turn.  F32Max stands for the largest finite      *)
(* Float32 value: a store of a larger magnitude gives an infinity.         *)
(***************************************************************************)
EXTENDS Integers, Sequences, FiniteSets, TLC

VARIABLES
    \* ---- Spec: the Model object of model.js and the heap of typed arrays
    heap,        \* the typed arrays allocated so far, [kind, data]
    positions,   \* this.positions: a reference into heap
    normals,     \* this.normals
    texcoords,   \* this.texcoords
    indices,     \* this.indices: a reference, 0 for null
    indexCount,  \* this.indexCount
    lastParams,  \* the argument of the last build call
    lastNr,      \* build's local Nr of the last call
    lastNu,      \* build's local Nu of the last call
    allocLog,    \* the lengths the last call asked the allocator for
    outcome,     \* "none", "ok" or "threw": how the last build call ended
    builds,      \* number of build calls made
    \* ---- SpecApp: the page of main.js
    gl,          \* "unset", "null" or "ok"
    uintExt,     \* whether gl.getExtension('OES_element_index_uint') is non-null
    program,     \* whether program is set
    loc,         \* whether loc is set
    spaceball,   \* whether spaceball is set
    surface,     \* the Model object of main.js (buffers as kind and length)
    params,      \* params.Nr and params.Nu of main.js
    listeners,   \* the slider keys whose 'input' listener is attached
    rafQueued,   \* whether a drawFrame callback is pending
    gpu,         \* the data stores of the four GPU buffers, as kind and length
    warned,      \* whether the last upload wrote the console warning
    lastDraw,    \* the last gl.drawElements call and the GPU store it read
    events       \* number of slider events handled

meshVars == <<heap, positions, normals, texcoords, indices, indexCount,
              lastParams, lastNr, lastNu, allocLog, outcome, builds>>
appVars  == <<gl, uintExt, program, loc, spaceball, surface, params,
              listeners, rafQueued, gpu, warned, lastDraw, events>>
vars     == <<meshVars, appVars>>

----------------------------------------------------------------------------
(* Bounds of the model.                                                    *)

\* build calls in a behaviour of Spec
MaxBuilds == 2
\* slider events in a behaviour of SpecApp
MaxEvents == 2
\* fixed-point units to 1.0
FX == 4
\* largest finite Float32 magnitude, in fixed-point units
F32Max == 20000
\* largest typed-array length the engine allocates
MaxArrayLength == 1000000
\* products are computed exactly below this and held at it above
SatCap == 1000000000

\* the largest vertex count addressed by 16-bit indices
MaxUint16Verts == 65535

----------------------------------------------------------------------------
(* JavaScript numbers given as params.Nr and params.Nu: a magnitude        *)
(* hi * 2^32 + w1 * 2^16 + w0 (+ 0.5 when frac) with a sign, or NaN.       *)

JSNaN == [k |-> "nan", sgn |-> 1, hi |-> 0, w1 |-> 0, w0 |-> 0, frac |-> FALSE]

JSInt(n) ==
    [k |-> "num", sgn |-> IF n < 0 THEN -1 ELSE 1, hi |-> 0,
     w1 |-> (IF n < 0 THEN -n ELSE n) \div 65536,
     w0 |-> (IF n < 0 THEN -n ELSE n) % 65536, frac |-> FALSE]

\* n + 0.5 for n >= 0, n - 0.5 for n < 0
JSHalf(n) == [JSInt(n) EXCEPT !.frac = TRUE]

\* hi * 2^32 + w1 * 2^16 + w0
JSBig(hi, w1, w0) ==
    [k |-> "num", sgn |-> 1, hi |-> hi, w1 |-> w1, w0 |-> w0, frac |-> FALSE]

\* x | 0: NaN gives 0; otherwise truncate toward zero, reduce modulo 2^32
\* and read the low 32 bits as a signed integer.
ToInt32(x) ==
    IF x.k = "nan" THEN 0
    ELSE LET low == IF x.w1 < 32768 THEN x.w1 * 65536 + x.w0
                    ELSE (x.w1 - 65536) * 65536 + x.w0
         IN  IF x.sgn = 1 THEN low
             ELSE IF x.w1 = 32768 /\ x.w0 = 0 THEN low
             ELSE -low

Max(a, b) == IF a >= b THEN a ELSE b

\* Math.max(2, p.Nr | 0)
ClampNr(x) == Max(2, ToInt32(x))

\* Math.max(3, p.Nu | 0)
ClampNuAsNr(x) == Max(2, ToInt32(x))

ClampNu(x) == Max(3, ToInt32(x))

\* a * b for a, b >= 0, held at SatCap when it is SatCap or more
SatMul(a, b) ==
    IF a = 0 \/ b = 0 THEN 0
    ELSE IF a >= SatCap \/ b >= SatCap THEN SatCap
    ELSE IF a > SatCap \div b THEN SatCap
    ELSE a * b

\* vertCount > 65535
UseUint32Off(vertCount) == vertCount >= MaxUint16Verts

UseUint32(vertCount) == vertCount > MaxUint16Verts

\* The sizes build computes from params: Nr, Nu, vertCount, indexCount and
\* the index element kind.
Dims(p) ==
    LET Nr == ClampNr(p.Nr)
        Nu == ClampNu(p.Nu)
        vertCount == SatMul(Nr, Nu)
        triCount  == SatMul(SatMul(Nr - 1, Nu - 1), 2)
    IN  [Nr |-> Nr, Nu |-> Nu, vertCount |-> vertCount,
         indexCount |-> SatMul(triCount, 3),
         kind |-> IF UseUint32(vertCount) THEN "u32" ELSE "u16"]

\* The lengths of the four allocations of build, in order: pos, nrm, uv, idx.
AllocRequests(d) ==
    << SatMul(d.vertCount, 3), SatMul(d.vertCount, 3),
       SatMul(d.vertCount, 2), d.indexCount >>

\* new Float32Array(n) and its kin throw a RangeError for a length the engine
\* does not allocate.
AllocThrows(n) == n < 0 \/ n > MaxArrayLength

\* The first allocation of build that throws, 0 if none does: the first one
\* whose length is refused, or the one (oom, 0 for none) that finds no memory.
FirstThrow(d, oom) ==
    LET req == AllocRequests(d)
        bad == {i \in 1..4 : AllocThrows(req[i]) \/ i = oom}
    IN  IF bad = {} THEN 0 ELSE CHOOSE i \in bad : \A j \in bad : i <= j

----------------------------------------------------------------------------
(* Doubles and Float32 elements.                                           *)

Fin(n)  == [k |-> "fin", n |-> n, d2 |-> 1]
NaN     == [k |-> "nan", n |-> 0, d2 |-> 1]
Inf(s)  == [k |-> "inf", n |-> s, d2 |-> 1]

Sign(n) == IF n < 0 THEN -1 ELSE IF n > 0 THEN 1 ELSE 0
Abs(n)  == IF n < 0 THEN -n ELSE n

\* a / b rounded to the nearest integer, halves away from zero (b > 0)
RDiv(a, b) == Sign(a) * ((2 * Abs(a) + b) \div (2 * b))

\* x + y, x - y and x * y of doubles (operands on the fixed-point grid)
FAdd(x, y) ==
    IF x.k = "nan" \/ y.k = "nan" THEN NaN
    ELSE IF x.k = "inf" /\ y.k = "inf" THEN (IF x.n = y.n THEN x ELSE NaN)
    ELSE IF x.k = "inf" THEN x
    ELSE IF y.k = "inf" THEN y
    ELSE Fin(x.n + y.n)

FNeg(x) == IF x.k = "nan" THEN NaN ELSE [x EXCEPT !.n = -x.n]

FSub(x, y) == FAdd(x, FNeg(y))

FMul(x, y) ==
    IF x.k = "nan" \/ y.k = "nan" THEN NaN
    ELSE IF x.k = "inf" \/ y.k = "inf"
         THEN (IF x.n = 0 \/ y.n = 0 THEN NaN ELSE Inf(Sign(x.n) * Sign(y.n)))
    ELSE Fin(x.n * y.n)

\* The value a Float32Array element holds after a store of x.
ToF32(x) ==
    IF x.k = "fin" /\ x.d2 = 1 /\ Abs(x.n) > F32Max THEN Inf(Sign(x.n)) ELSE x

\* Math.hypot(x, y, z), as the square of the length: an infinity if any
\* argument is one, else NaN if any is, else x*x + y*y + z*z.
Hypot2(x, y, z) ==
    IF x.k = "inf" \/ y.k = "inf" \/ z.k = "inf" THEN Inf(1)
    ELSE IF x.k = "nan" \/ y.k = "nan" \/ z.k = "nan" THEN NaN
    ELSE Fin(x.n * x.n + y.n * y.n + z.n * z.n)

\* len > 1e-12, for the squared length of a vector on the grid
ExceedsEps(len2) == len2.k = "inf" \/ (len2.k = "fin" /\ len2.n > 0)

\* x / len, for len = sqrt(len2) above the epsilon
DivLen(x, len2) ==
    IF x.k = "nan" THEN NaN
    ELSE IF len2.k = "inf" THEN (IF x.k = "inf" THEN NaN ELSE Fin(0))
    ELSE IF x.k = "inf" THEN x
    ELSE [k |-> "fin", n |-> x.n, d2 |-> len2.n]

\* Math.sin(pi * p / q) in fixed point (q > 0), by Bhaskara's rational
\* approximation, exact at the multiples of a quarter turn.
SinPi(p, q) ==
    LET r == p % (2 * q)
        h == IF r <= q THEN r ELSE r - q
        v == RDiv(FX * 16 * h * (q - h), 5 * q * q - 4 * h * (q - h))
    IN  IF r <= q THEN v ELSE -v

\* Math.cos(pi * p / q) in fixed point
CosPi(p, q) == SinPi(2 * p + q, 2 * q)

\* Math.exp(-x) in fixed point, for x >= 0 given in fixed point
ExpNeg(x) == RDiv(2 * FX * FX * FX, 2 * FX * FX + 2 * FX * x + x * x)

----------------------------------------------------------------------------
(* Model.surfacePoint and the generation loops of Model.build.             *)

\* r = rMin + t * (rMax - rMin) with t = i / (Nr - 1), rMin = 0, rMax = p.b
Radius(i, Nr, p) == RDiv(i * p.b * FX, Nr - 1)

\* z = a * exp(-n r) * sin(w r + phi), w = m pi / b, at radial step i.
\* With b = 0 the frequency w is infinite or NaN and r is 0, so w * r is NaN.
\* p.phi counts quarter turns.
SurfaceZ(i, Nr, p) ==
    IF p.b = 0 THEN NaN
    ELSE Fin(RDiv(p.a * ExpNeg(p.n * Radius(i, Nr, p))
                      * SinPi(2 * p.m * i + p.phi * (Nr - 1), 2 * (Nr - 1)),
                  FX))

\* [x, y, z] of surfacePoint(r, u, p) at grid vertex (i, j):
\* u = uMin + s * (uMax - uMin) with s = j / (Nu - 1), uMax = 2 pi
SurfacePoint(i, j, d, p) ==
    LET r == Radius(i, d.Nr, p)
    IN  << Fin(RDiv(r * CosPi(2 * j, d.Nu - 1), FX)),
           Fin(RDiv(r * SinPi(2 * j, d.Nu - 1), FX)),
           SurfaceZ(i, d.Nr, p) >>

\* pos after the generation loop: vertex v = i * Nu + j at pos[3v .. 3v+2]
GenPositions(d, p) ==
    [k \in 1..(3 * d.vertCount) |->
        LET v == (k - 1) \div 3
        IN  ToF32(SurfacePoint(v \div d.Nu, v % d.Nu, d, p)[((k - 1) % 3) + 1])]

\* uv after the generation loop: (s, t) = (j / (Nu - 1), i / (Nr - 1))
GenUV(d) ==
    [k \in 1..(2 * d.vertCount) |->
        LET v == (k - 1) \div 2
        IN  IF (k - 1) % 2 = 0
            THEN [k |-> "fin", n |-> v % d.Nu, d2 |-> (d.Nu - 1) * (d.Nu - 1)]
            ELSE [k |-> "fin", n |-> v \div d.Nu, d2 |-> (d.Nr - 1) * (d.Nr - 1)]]

\* The value an index array element of the kind holds after a store of v.
StoreIndex(kind, v) == IF kind = "u16" THEN v % 65536 ELSE v

\* vid(i, j) = i * Nu + j
VidWrongStride(i, j, Nu) == i * (Nu + 1) + j

Vid(i, j, Nu) == i * Nu + j

\* The six indices written for quad (i, j): a-b-c then b-d-c.
QuadIndicesFlipped(i, j, Nu) ==
    LET a == Vid(i, j, Nu)
        b == Vid(i + 1, j, Nu)
        c == Vid(i, j + 1, Nu)
        e == Vid(i + 1, j + 1, Nu)
    IN  << a, b, c, b, c, e >>

QuadIndices(i, j, Nu) ==
    LET a == Vid(i, j, Nu)
        b == Vid(i + 1, j, Nu)
        c == Vid(i, j + 1, Nu)
        e == Vid(i + 1, j + 1, Nu)
    IN  << a, b, c, b, e, c >>

\* idx after the index loop: quad (i, j) is written at 6 * (i * (Nu-1) + j).
GenIndices(d) ==
    [k \in 1..d.indexCount |->
        LET q == (k - 1) \div 6
        IN  StoreIndex(d.kind,
                QuadIndices(q \div (d.Nu - 1), q % (d.Nu - 1), d.Nu)[((k - 1) % 6) + 1])]

----------------------------------------------------------------------------
(* The normal pass of Model.build.                                         *)

\* A read of element k (from 0) of a Float32Array: undefined, NaN in
\* arithmetic, outside the array.
At(arr, k) == IF k + 1 \in DOMAIN arr THEN arr[k + 1] ELSE NaN

\* n = (p1 - p0) x (p2 - p0) for the triangle at idx[3 tri ..]
FaceNormal(pos, idx, tri) ==
    LET i0 == idx[3 * tri + 1]
        i1 == idx[3 * tri + 2]
        i2 == idx[3 * tri + 3]
        e1x == FSub(At(pos, 3 * i1), At(pos, 3 * i0))
        e1y == FSub(At(pos, 3 * i1 + 1), At(pos, 3 * i0 + 1))
        e1z == FSub(At(pos, 3 * i1 + 2), At(pos, 3 * i0 + 2))
        e2x == FSub(At(pos, 3 * i2), At(pos, 3 * i0))
        e2y == FSub(At(pos, 3 * i2 + 1), At(pos, 3 * i0 + 1))
        e2z == FSub(At(pos, 3 * i2 + 2), At(pos, 3 * i0 + 2))
    IN  << FSub(FMul(e1y, e2z), FMul(e1z, e2y)),
           FSub(FMul(e1z, e2x), FMul(e1x, e2z)),
           FSub(FMul(e1x, e2y), FMul(e1y, e2x)) >>

RECURSIVE AddInOrder(_, _, _, _)
\* acc += n for the index entries cs, in order, each sum stored as Float32
AddInOrder(acc, faces, cs, comp) ==
    IF cs = << >> THEN acc
    ELSE AddInOrder(ToF32(FAdd(acc, faces[((Head(cs) - 1) \div 3) + 1][comp])),
                    faces, Tail(cs), comp)

\* nrm after the accumulation loop, which adds each triangle's n to
\* nrm[3v .. 3v+2] of its three corners v. Element by element: the loop adds
\* to nrm[3v + comp] once for every index entry equal to v, in the order of
\* the entries, and an entry outside the array adds nothing.
Accumulate(nrm, pos, idx, count) ==
    LET faces == [t \in 1..(count \div 3) |-> FaceNormal(pos, idx, t - 1)]
        entries == [c \in 1..(3 * (count \div 3)) |-> c]
    IN  [k \in DOMAIN nrm |->
            AddInOrder(nrm[k], faces,
                       SelectSeq(entries, LAMBDA c : idx[c] = (k - 1) \div 3),
                       ((k - 1) % 3) + 1)]

\* The normalize loop: a vertex whose accumulated length exceeds the epsilon
\* is divided by it, any other is set to (0, 0, 1).
Normalize(nrm, vertCount) ==
    [k \in 1..(3 * vertCount) |->
        LET v == (k - 1) \div 3
            len2 == Hypot2(nrm[3 * v + 1], nrm[3 * v + 2], nrm[3 * v + 3])
        IN  IF ExceedsEps(len2) THEN ToF32(DivLen(nrm[k], len2))
            ELSE IF (k - 1) % 3 = 2 THEN Fin(1) ELSE Fin(0)]

----------------------------------------------------------------------------
(* Model: the constructor and build, over the heap of typed arrays.        *)

\* new Float32Array(n): n zeros
ZerosF32(n) == [kind |-> "f32", data |-> [k \in 1..n |-> Fin(0)]]

\* The Model object after its constructor, with the heap holding its three
\* empty Float32Arrays; indices is null (0).
NewModel ==
    [heap |-> << ZerosF32(0), ZerosF32(0), ZerosF32(0) >>,
     positions |-> 1, normals |-> 2, texcoords |-> 3,
     indices |-> 0, indexCount |-> 0]

\* The object after the generation loops, which write pos and uv only.
AfterGenerationPublishing(st, posRef) == [st EXCEPT !.positions = posRef]

AfterGeneration(st, posRef) == st

\* this.positions = pos; ...; this.indexCount = idx.length, with the arrays of
\* the call at heap[base + 1 .. base + 4]. A rebuild in place would instead
\* write into the arrays the object already holds.
PublishInPlace(st, base, art) ==
    IF st.indices # 0 /\ Len(st.heap[st.positions].data) = Len(art[1].data)
    THEN [st EXCEPT !.heap = [r \in 1..Len(st.heap) |->
                                 IF r = st.positions THEN art[1]
                                 ELSE IF r = st.normals THEN art[2]
                                 ELSE IF r = st.texcoords THEN art[3]
                                 ELSE IF r = st.indices THEN art[4]
                                 ELSE st.heap[r]],
                    !.indexCount = Len(art[4].data)]
    ELSE [st EXCEPT !.heap = st.heap \o art,
                    !.positions = base + 1, !.normals = base + 2,
                    !.texcoords = base + 3, !.indices = base + 4,
                    !.indexCount = Len(art[4].data)]

Publish(st, base, art) ==
    [st EXCEPT !.heap = st.heap \o art,
               !.positions = base + 1, !.normals = base + 2,
               !.texcoords = base + 3, !.indices = base + 4,
               !.indexCount = Len(art[4].data)]

\* The typed arrays of a build that ran to its end: pos, nrm, uv, idx.
Artifact(d, p) ==
    LET pos == GenPositions(d, p)
        idx == GenIndices(d)
        acc == Accumulate(ZerosF32(3 * d.vertCount).data, pos, idx,
                          d.indexCount)
    IN  << [kind |-> "f32", data |-> pos],
           [kind |-> "f32", data |-> Normalize(acc, d.vertCount)],
           [kind |-> "f32", data |-> GenUV(d)],
           [kind |-> d.kind, data |-> idx] >>

\* build(p) on the object st, where allocation oom (0: none) finds no
\* memory: the object and heap it leaves, and whether it threw.
BuildRun(st, p, oom) ==
    LET d    == Dims(p)
        ft   == FirstThrow(d, oom)
        base == Len(st.heap)
        zpos == ZerosF32(3 * d.vertCount)
        zuv  == ZerosF32(2 * d.vertCount)
    IN  CASE ft = 1 -> [st |-> st, threw |-> TRUE]
          [] ft = 2 -> [st |-> [st EXCEPT !.heap = @ \o << zpos >>], threw |-> TRUE]
          [] ft = 3 -> [st |-> [st EXCEPT !.heap = @ \o << zpos, zpos >>],
                        threw |-> TRUE]
          [] ft = 4 -> [st |-> AfterGeneration(
                                  [st EXCEPT !.heap = @ \o
                                      << [kind |-> "f32", data |-> GenPositions(d, p)],
                                         zpos,
                                         [kind |-> "f32", data |-> GenUV(d)] >>],
                                  base + 1),
                        threw |-> TRUE]
          [] OTHER  -> [st |-> Publish(AfterGeneration(st, base + 1), base,
                                       Artifact(d, p)),
                        threw |-> FALSE]

----------------------------------------------------------------------------
(* Spec: build calls on one Model object.                                  *)

Geometry(a, n, m, b, phi) == [a |-> a, n |-> n, m |-> m, b |-> b, phi |-> phi]

WithResolution(g, Nr, Nu) ==
    [a |-> g.a, n |-> g.n, m |-> g.m, b |-> g.b, phi |-> g.phi,
     Nr |-> Nr, Nu |-> Nu]

\* a plain wave, a damped and shifted wave, a zero outer radius, and an outer
\* radius whose cross products exceed the Float32 range
GWave   == Geometry(2, 0, 1, 2, 0)
GDamped == Geometry(2, 1, 2, 2, 1)
GZeroB  == Geometry(2, 0, 1, 0, 0)
GHugeB  == Geometry(2, 0, 1, 60, 0)

\* 2^31 - 1, 2^31 and 2^32 + 3 as JavaScript numbers
JSMaxInt32 == JSBig(0, 32767, 65535)
JSTwo31    == JSBig(0, 32768, 0)
JSTwo32p3  == JSBig(1, 0, 3)

\* The arguments build is called with: resolutions missing, zero, negative,
\* fractional, below the minimum, beyond the signed 32-bit range, and plain.
BuildInputs ==
    { WithResolution(GWave,   JSNaN,      JSInt(0)),
      WithResolution(GWave,   JSInt(3),   JSInt(5)),
      WithResolution(GDamped, JSHalf(4),  JSInt(4)),
      WithResolution(GDamped, JSTwo32p3,  JSInt(-3)),
      WithResolution(GZeroB,  JSTwo31,    JSHalf(2)),
      WithResolution(GHugeB,  JSInt(3),   JSInt(5)),
      WithResolution(GWave,   JSInt(1),   JSInt(6)),
      WithResolution(GDamped, JSInt(3),   JSInt(5)) }

\* The calls of a behaviour: every input with memory for all its arrays, some
\* with one allocation finding none, and one whose arrays the engine refuses.
BuildCalls ==
    { [p |-> q, oom |-> 0] : q \in BuildInputs }
    \cup { [p |-> WithResolution(GWave,   JSInt(3),  JSInt(5)), oom |-> 1],
           [p |-> WithResolution(GDamped, JSHalf(4), JSInt(4)), oom |-> 2],
           [p |-> WithResolution(GDamped, JSInt(3),  JSInt(5)), oom |-> 3],
           [p |-> WithResolution(GWave,   JSInt(3),  JSInt(5)), oom |-> 4],
           [p |-> WithResolution(GDamped, JSHalf(4), JSInt(4)), oom |-> 4],
           [p |-> WithResolution(GWave,   JSMaxInt32, JSInt(3)), oom |-> 0] }

NoParams == WithResolution(Geometry(0, 0, 0, 0, 0), JSNaN, JSNaN)

\* The Model object as a record of the variables that hold it.
This ==
    [heap |-> heap, positions |-> positions, normals |-> normals,
     texcoords |-> texcoords, indices |-> indices, indexCount |-> indexCount]

\* A typed array as its element kind and length; null has kind "null".
Desc(kind, length) == [kind |-> kind, length |-> length]
NullDesc == Desc("null", 0)

\* let surface; before initGL assigns it (made = FALSE), and the Model
\* object after its constructor.
NoSurface ==
    [made |-> FALSE, positions |-> NullDesc, normals |-> NullDesc,
     texcoords |-> NullDesc, indices |-> NullDesc, indexCount |-> 0,
     indexType |-> "null", buffers |-> FALSE]

NewSurface ==
    [made |-> TRUE, positions |-> Desc("f32", 0), normals |-> Desc("f32", 0),
     texcoords |-> Desc("f32", 0), indices |-> NullDesc, indexCount |-> 0,
     indexType |-> "null", buffers |-> FALSE]

NoStores == [pos |-> NullDesc, nrm |-> NullDesc, uv |-> NullDesc, ibo |-> NullDesc]

NoDraw == [drawn |-> FALSE, count |-> 0, type |-> "null", store |-> NullDesc]

\* let params = { ..., Nu: 120, Nr: 120, ... }
DefaultParams == [Nr |-> JSInt(120), Nu |-> JSInt(120)]

AppIdle ==
    /\ gl = "unset" /\ uintExt = FALSE /\ program = FALSE /\ loc = FALSE
    /\ spaceball = FALSE /\ surface = NoSurface
    /\ params = DefaultParams
    /\ listeners = {} /\ rafQueued = FALSE
    /\ gpu = NoStores
    /\ warned = FALSE
    /\ lastDraw = NoDraw
    /\ events = 0

Init ==
    /\ heap = NewModel.heap
    /\ positions = NewModel.positions
    /\ normals = NewModel.normals
    /\ texcoords = NewModel.texcoords
    /\ indices = NewModel.indices
    /\ indexCount = NewModel.indexCount
    /\ lastParams = NoParams
    /\ lastNr = 0
    /\ lastNu = 0
    /\ allocLog = << >>
    /\ outcome = "none"
    /\ builds = 0
    /\ AppIdle

\* surface.build(p), with allocation oom (0: none) finding no memory
Build(p, oom) ==
    /\ builds < MaxBuilds
    /\ \E d \in {Dims(p)}, run \in {BuildRun(This, p, oom)} :
           /\ heap' = run.st.heap
           /\ positions' = run.st.positions
           /\ normals' = run.st.normals
           /\ texcoords' = run.st.texcoords
           /\ indices' = run.st.indices
           /\ indexCount' = run.st.indexCount
           /\ lastNr' = d.Nr
           /\ lastNu' = d.Nu
           /\ allocLog' = SubSeq(AllocRequests(d), 1,
                                 IF FirstThrow(d, oom) = 0 THEN 4
                                 ELSE FirstThrow(d, oom))
           /\ outcome' = IF run.threw THEN "threw" ELSE "ok"
    /\ lastParams' = p
    /\ builds' = builds + 1
    /\ UNCHANGED appVars

Next == \E c \in BuildCalls : Build(c.p, c.oom)

Spec == Init /\ [][Next]_vars

----------------------------------------------------------------------------
(* The buffers of the Model object, read through its references.           *)

Pos == heap[positions].data
Nrm == heap[normals].data
UV  == heap[texcoords].data
Idx == IF indices = 0 THEN << >> ELSE heap[indices].data

NormalOf(v) == << Nrm[3 * v + 1], Nrm[3 * v + 2], Nrm[3 * v + 3] >>
PositionOf(v) == << Pos[3 * v + 1], Pos[3 * v + 2], Pos[3 * v + 3] >>

\* A stored vector of length one: finite components n / sqrt(d2) over one
\* d2, with the squares of the n summing to d2.
IsUnit(w) ==
    /\ \A c \in 1..3 : w[c].k = "fin" /\ w[c].d2 = w[1].d2
    /\ w[1].n * w[1].n + w[2].n * w[2].n + w[3].n * w[3].n = w[1].d2

\* Two stored numbers that are the same real number, or the same
\* non-finite value.
SameNumber(x, y) ==
    IF x.k = "fin" /\ y.k = "fin"
    THEN Sign(x.n) = Sign(y.n) /\ x.n * x.n * y.d2 = y.n * y.n * x.d2
    ELSE x = y

SameVector(w, u) == \A c \in 1..3 : SameNumber(w[c], u[c])

\* Twice the signed area, in the (i, j) parameter grid, of the triangle at
\* idx[3 tri ..] of a grid with Nu columns.
GridArea2(idx, tri, Nu) ==
    LET i0 == idx[3 * tri + 1] \div Nu    j0 == idx[3 * tri + 1] % Nu
        i1 == idx[3 * tri + 2] \div Nu    j1 == idx[3 * tri + 2] % Nu
        i2 == idx[3 * tri + 3] \div Nu    j2 == idx[3 * tri + 3] % Nu
    IN  (i1 - i0) * (j2 - j0) - (i2 - i0) * (j1 - j0)

----------------------------------------------------------------------------
(* Claims checked under Spec.                                              *)

\* C1: after a build call that returns, with Nr and Nu its clamped
\* resolution, positions holds 3*Nr*Nu elements, texcoords 2*Nr*Nu, indices
\* 6*(Nr-1)*(Nu-1), indexCount is the length of indices, and every stored
\* index k satisfies 0 <= k < Nr*Nu.
C1_BufferSizes ==
    outcome = "ok" =>
        /\ Len(Pos) = 3 * lastNr * lastNu
        /\ Len(UV) = 2 * lastNr * lastNu
        /\ Len(Idx) = 6 * (lastNr - 1) * (lastNu - 1)
        /\ indexCount = Len(Idx)
        /\ \A k \in 1..Len(Idx) : 0 <= Idx[k] /\ Idx[k] < lastNr * lastNu

\* C1 witness: a build returned with a resolution above both minimums, and
\* the last index of its buffer is the last vertex.
C1_Witness ==
    /\ outcome = "ok" /\ lastNr = 3 /\ lastNu = 5
    /\ Len(Idx) = 48 /\ Idx[47] = 14

\* C4: whatever params.Nr and params.Nu are, the resolution build works with
\* has Nr >= 2 and Nu >= 3, and every allocation the call asks for, the
\* first included, is sized from that clamped resolution.
C4_ClampedBeforeAllocation ==
    outcome # "none" =>
        /\ lastNr >= 2 /\ lastNu >= 3
        /\ Len(allocLog) >= 1
        /\ IF lastNr <= 1000 /\ lastNu <= 1000
           THEN \A i \in 1..Len(allocLog) :
                    allocLog[i] = << 3 * lastNr * lastNu, 3 * lastNr * lastNu,
                                     2 * lastNr * lastNu,
                                     6 * (lastNr - 1) * (lastNu - 1) >>[i]
           ELSE allocLog[1] > MaxArrayLength

\* C4 witness: a call with Nr missing (NaN) and Nu zero returned, having
\* worked with the minimum resolution 2 x 3.
C4_Witness ==
    /\ outcome = "ok" /\ lastParams.Nr = JSNaN /\ lastParams.Nu = JSInt(0)
    /\ lastNr = 2 /\ lastNu = 3 /\ allocLog = << 18, 18, 12, 12 >>

\* C5 (as claimed): after build every stored normal is of unit length or is
\* exactly (0, 0, 1); none is the zero vector or has a non-finite component.
C5_NormalsUnitOrFallback ==
    outcome = "ok" =>
        \A v \in 0..(lastNr * lastNu - 1) : IsUnit(NormalOf(v))

\* C6: a build call changes no typed array that existed before it, and when
\* it returns, positions, normals, texcoords, indices and indexCount are
\* those a single build with the same argument leaves on a fresh Model.
C6_FreshArtifactEachCall ==
    [][ /\ \A r \in 1..Len(heap) : heap'[r] = heap[r]
        /\ outcome' = "ok" =>
              \A fresh \in {BuildRun(NewModel, lastParams', 0).st} :
                  /\ heap'[positions'] = fresh.heap[fresh.positions]
                  /\ heap'[normals'] = fresh.heap[fresh.normals]
                  /\ heap'[texcoords'] = fresh.heap[fresh.texcoords]
                  /\ heap'[indices'] = fresh.heap[fresh.indices]
                  /\ indexCount' = fresh.indexCount ]_vars

\* C6 witness: a second build returned after a first one of the same
\* resolution and another geometry, whose arrays are still in the heap.
C6_Witness ==
    /\ builds = 2 /\ outcome = "ok" /\ positions = 8
    /\ Len(heap[4].data) = Len(heap[8].data)
    /\ heap[4] # heap[8] /\ heap[5] # heap[9]

\* C7: a build call that throws leaves positions, normals, texcoords,
\* indices and indexCount, and the arrays they refer to, as they were.
C7_ThrowKeepsArtifact ==
    [][ outcome' = "threw" =>
          /\ positions' = positions /\ normals' = normals
          /\ texcoords' = texcoords /\ indices' = indices
          /\ indexCount' = indexCount
          /\ \A r \in 1..Len(heap) : heap'[r] = heap[r] ]_vars

\* C7 witness: with an artifact published, a later call threw at its last
\* allocation, the index array, after its positions were generated.
C7_Witness ==
    /\ outcome = "threw" /\ builds = 2 /\ indices = 7 /\ indexCount > 0
    /\ Len(allocLog) = 4 /\ Len(heap) = 10

\* C8: the index buffer holds, for every quad (i, j), the triangles
\* (a, b, c) and (b, d, c) at offset 6 * (i * (Nu - 1) + j), nothing else,
\* and all its triangles have the same orientation in the parameter grid.
C8_QuadTriangles ==
    outcome = "ok" =>
        /\ Len(Idx) = 6 * (lastNr - 1) * (lastNu - 1)
        /\ \A i \in 0..(lastNr - 2) : \A j \in 0..(lastNu - 2) :
              LET a == i * lastNu + j
                  b == (i + 1) * lastNu + j
                  c == i * lastNu + (j + 1)
                  e == (i + 1) * lastNu + (j + 1)
                  o == 6 * (i * (lastNu - 1) + j)
              IN  SubSeq(Idx, o + 1, o + 6) = << a, b, c, b, e, c >>
        /\ \A t \in 0..(Len(Idx) \div 3 - 1) :
              Sign(GridArea2(Idx, t, lastNu)) = Sign(GridArea2(Idx, 0, lastNu))
                 /\ GridArea2(Idx, t, lastNu) # 0

\* C8 witness: a 4 x 4 grid was built; its last quad (2, 2) is at offset 48.
C8_Witness ==
    /\ outcome = "ok" /\ lastNr = 4 /\ lastNu = 4
    /\ SubSeq(Idx, 49, 54) = << 10, 14, 11, 14, 15, 11 >>

\* C9 (as claimed): for every radial step i the vertices (i, 0) and
\* (i, Nu - 1) are distinct, no triangle joins the last angular column to
\* the first, and the two vertices have the same position and the same normal.
C9_SeamMatches ==
    outcome = "ok" =>
        /\ \A i \in 0..(lastNr - 1) :
              LET first == i * lastNu
                  last  == i * lastNu + lastNu - 1
              IN  /\ first # last
                  /\ SameVector(PositionOf(first), PositionOf(last))
                  /\ SameVector(NormalOf(first), NormalOf(last))
        /\ \A t \in 0..(Len(Idx) \div 3 - 1) :
              ~ ( /\ \E c \in 1..3 : Idx[3 * t + c] % lastNu = 0
                  /\ \E c \in 1..3 : Idx[3 * t + c] % lastNu = lastNu - 1 )

----------------------------------------------------------------------------
(* SpecApp: the page of main.js around one Model object.                   *)

\* surface.build(params) on the object m, where allocation oom (0: none)
\* finds no memory: the object it leaves, and whether it threw.
BuildSurface(m, p, oom) ==
    LET d == Dims(p)
    IN  IF FirstThrow(d, oom) # 0 THEN [m |-> m, threw |-> TRUE]
        ELSE [m |-> [m EXCEPT !.positions = Desc("f32", 3 * d.vertCount),
                              !.normals = Desc("f32", 3 * d.vertCount),
                              !.texcoords = Desc("f32", 2 * d.vertCount),
                              !.indices = Desc(d.kind, d.indexCount),
                              !.indexCount = d.indexCount],
              threw |-> FALSE]

\* The index type upload resolves: this.indices instanceof Uint32Array
IndexTypeOf(idx) == IF idx.kind = "u32" THEN "UNSIGNED_INT" ELSE "UNSIGNED_SHORT"

\* Whether upload writes its console warning: Uint32Array indices and no
\* OES_element_index_uint
UploadWarnsWhenWide(idx, ext) == idx.kind = "u32"

UploadWarns(idx, ext) == idx.kind = "u32" /\ ~ext

\* The machine of main.js that the handlers work on.
Machine ==
    [surface |-> surface, gpu |-> gpu, params |-> params, warned |-> warned,
     listeners |-> listeners, threw |-> FALSE, rebuilds |-> 0]

\* surface.upload(gl)
Upload(M, ext) ==
    [M EXCEPT !.surface.buffers = TRUE,
              !.gpu = [pos |-> M.surface.positions, nrm |-> M.surface.normals,
                       uv |-> M.surface.texcoords, ibo |-> M.surface.indices],
              !.surface.indexType = IndexTypeOf(M.surface.indices),
              !.warned = UploadWarns(M.surface.indices, ext)]

\* rebuildSurface(), its build finding no memory when oom is TRUE; an
\* exception of build leaves the function before upload.
RebuildSurfaceWithoutUpload(M, glv, ext, oom) ==
    IF ~M.surface.made \/ glv # "ok" THEN M
    ELSE LET b == BuildSurface(M.surface, M.params, IF oom THEN 1 ELSE 0)
         IN  IF b.threw THEN [M EXCEPT !.threw = TRUE, !.rebuilds = @ + 1]
             ELSE [M EXCEPT !.surface = b.m, !.rebuilds = @ + 1]

RebuildSurface(M, glv, ext, oom) ==
    IF ~M.surface.made \/ glv # "ok" THEN M
    ELSE LET b == BuildSurface(M.surface, M.params, IF oom THEN 1 ELSE 0)
         IN  IF b.threw THEN [M EXCEPT !.threw = TRUE, !.rebuilds = @ + 1]
             ELSE Upload([M EXCEPT !.surface = b.m, !.rebuilds = @ + 1], ext)

GeometryKeys == {"a", "n", "m", "b", "phi", "Nu", "Nr"}

\* the order in which setupUI binds the sliders
SliderOrder == << "a", "n", "m", "b", "phi", "Nu", "Nr", "scale", "uvScale" >>

\* update() of the slider key whose element holds value
Update(M, key, value, glv, ext, oom) ==
    LET P == [M EXCEPT !.params = IF key = "Nr" THEN [@ EXCEPT !.Nr = value]
                                  ELSE IF key = "Nu" THEN [@ EXCEPT !.Nu = value]
                                  ELSE @]
    IN  IF key \in GeometryKeys THEN RebuildSurface(P, glv, ext, oom) ELSE P

RECURSIVE BindSliders(_, _, _, _, _, _, _)
\* setupUI from slider k of SliderOrder on: a slider of the page gets its
\* listener and one update(); an exception ends setupUI. oomAt is the
\* rebuild of the load, counted from initGL's, that finds no memory.
BindSliders(M, k, present, values, glv, ext, oomAt) ==
    IF k > Len(SliderOrder) \/ M.threw THEN M
    ELSE LET key == SliderOrder[k]
         IN  IF key \notin present
             THEN BindSliders(M, k + 1, present, values, glv, ext, oomAt)
             ELSE BindSliders(
                      Update([M EXCEPT !.listeners = @ \cup {key}], key,
                             IF key = "Nr" THEN values.Nr ELSE values.Nu,
                             glv, ext, M.rebuilds + 1 = oomAt),
                      k + 1, present, values, glv, ext, oomAt)

\* The values a slider element can hold when read by Number(el.value).
SliderValues ==
    { JSNaN, JSInt(3), JSInt(256), JSInt(500), JSInt(21845), JSInt(32768),
      JSMaxInt32 }

\* The sliders a page may have, by key.
Pages ==
    { {"a", "n", "m", "b", "phi", "Nu", "Nr", "scale", "uvScale"},
      {"a", "Nu", "scale"},
      {} }

InitApp ==
    /\ heap = NewModel.heap
    /\ positions = NewModel.positions
    /\ normals = NewModel.normals
    /\ texcoords = NewModel.texcoords
    /\ indices = NewModel.indices
    /\ indexCount = NewModel.indexCount
    /\ lastParams = NoParams
    /\ lastNr = 0
    /\ lastNu = 0
    /\ allocLog = << >>
    /\ outcome = "none"
    /\ builds = 0
    /\ AppIdle

\* window 'load': init(). glOK: getContext returns a context; shadersOK:
\* initGL's shader sources exist and compile and link; ext: the context has
\* OES_element_index_uint; page: the sliders present; values: what the Nr
\* and Nu sliders hold; oomAt: the rebuild that finds no memory (0: none).
Load(glOK, shadersOK, ext, page, values, oomAt) ==
    /\ gl = "unset"
    /\ uintExt' = ext
    /\ IF ~glOK
       THEN /\ gl' = "null"
            /\ UNCHANGED <<program, loc, spaceball, surface, params, listeners,
                           rafQueued, gpu, warned>>
       ELSE /\ gl' = "ok"
            /\ IF ~shadersOK
               THEN UNCHANGED <<program, loc, spaceball, surface, params,
                                listeners, rafQueued, gpu, warned>>
               ELSE \E G \in {RebuildSurface([Machine EXCEPT !.surface = NewSurface],
                                             "ok", ext, oomAt = 1)} :
                    \E U \in {IF G.threw THEN G
                              ELSE BindSliders(G, 1, page, values, "ok", ext, oomAt)} :
                       /\ program' = TRUE
                       /\ loc' = TRUE
                       /\ spaceball' = ~G.threw
                       /\ surface' = U.surface
                       /\ gpu' = U.gpu
                       /\ params' = U.params
                       /\ warned' = U.warned
                       /\ listeners' = U.listeners
                       /\ rafQueued' = ~U.threw
    /\ UNCHANGED <<lastDraw, events>>
    /\ UNCHANGED meshVars

\* An 'input' event of the slider key, whose element holds value.
SliderInput(key, value, oom) ==
    /\ key \in listeners
    /\ events < MaxEvents
    /\ \E U \in {Update(Machine, key, value, gl, uintExt, oom)} :
          /\ surface' = U.surface
          /\ gpu' = U.gpu
          /\ params' = U.params
          /\ warned' = U.warned
    /\ events' = events + 1
    /\ UNCHANGED <<gl, uintExt, program, loc, spaceball, listeners, rafQueued,
                   lastDraw>>
    /\ UNCHANGED meshVars

\* An animation frame: drawFrame(timeMs), which ends in surface.draw and
\* asks for the next frame, or returns at its guard.
DrawFrame ==
    /\ rafQueued
    /\ IF gl # "ok" \/ ~program \/ ~surface.made \/ ~spaceball \/ ~loc
       THEN /\ rafQueued' = FALSE
            /\ UNCHANGED lastDraw
       ELSE /\ lastDraw' = [drawn |-> TRUE, count |-> surface.indexCount,
                            type |-> surface.indexType, store |-> gpu.ibo]
            /\ rafQueued' = TRUE
    /\ UNCHANGED <<gl, uintExt, program, loc, spaceball, surface, params,
                   listeners, gpu, warned, events>>
    /\ UNCHANGED meshVars

NextApp ==
    \/ \E glOK \in BOOLEAN, shadersOK \in BOOLEAN, ext \in BOOLEAN,
          page \in Pages, nr \in SliderValues, nu \in SliderValues,
          oomAt \in 0..8 :
          Load(glOK, shadersOK, ext, page, [Nr |-> nr, Nu |-> nu], oomAt)
    \/ \E key \in GeometryKeys \cup {"scale", "uvScale"},
          value \in SliderValues, oom \in BOOLEAN :
          SliderInput(key, value, oom)
    \/ DrawFrame

SpecApp == InitApp /\ [][NextApp]_vars

----------------------------------------------------------------------------
(* Claims checked under SpecApp.                                           *)

\* The vertex count of the mesh the Model object holds.
VertexCount == surface.positions.length \div 3

Built == surface.indices.kind # "null"

\* C2: the index buffer of a built mesh is 32-bit exactly when its vertex
\* count is greater than 65535 and 16-bit otherwise, and upload sets
\* indexType to UNSIGNED_INT for the first and UNSIGNED_SHORT for the second.
C2_IndexWidth ==
    Built =>
        /\ surface.indices.kind = (IF VertexCount > 65535 THEN "u32" ELSE "u16")
        /\ surface.indexType =
              (IF VertexCount > 65535 THEN "UNSIGNED_INT" ELSE "UNSIGNED_SHORT")

\* C2 witness: a mesh of exactly 65536 vertices is held with 32-bit
\* indices, after a frame drew one of exactly 65535 vertices (3 x 21845,
\* 262128 indices) with 16-bit indices.
C2_Witness ==
    /\ Built /\ VertexCount = 65536 /\ surface.indexType = "UNSIGNED_INT"
    /\ lastDraw.drawn /\ lastDraw.count = 262128
    /\ lastDraw.type = "UNSIGNED_SHORT"

\* C3 (as claimed): the warning is written for every mesh of more than
\* 65535 vertices and for no mesh of at most 65535, whatever the renderer
\* supports.
C3_WarnsWhenWide ==
    Built => (warned <=> VertexCount > 65535)

\* C3 (amended): the warning is written exactly for a mesh of more than
\* 65535 vertices on a renderer without OES_element_index_uint; none is
\* written for a mesh of at most 65535 vertices, whatever the renderer
\* supports.
C3_WarnsWhenWideAndUnsupported ==
    Built => (warned <=> (VertexCount > 65535 /\ ~uintExt))

\* C3 witness: a mesh of 65536 vertices was uploaded to a renderer without
\* the extension, and the warning was written.
C3_Witness ==
    Built /\ VertexCount = 65536 /\ ~uintExt /\ warned

\* C10: every draw call was issued with the indexCount and the indexType of
\* the index buffer then on the GPU, never with a null indexType, and
\* between handlers the GPU holds the index buffer of the last build.
C10_DrawMatchesUpload ==
    /\ lastDraw.drawn =>
          /\ lastDraw.type # "null"
          /\ lastDraw.store.kind # "null"
          /\ lastDraw.count = lastDraw.store.length
          /\ lastDraw.type = (IF lastDraw.store.kind = "u32" THEN "UNSIGNED_INT"
                              ELSE "UNSIGNED_SHORT")
    /\ Built =>
          /\ gpu.ibo = surface.indices
          /\ surface.indexCount = gpu.ibo.length
    /\ rafQueued => Built

\* C10 witness: a frame drew a 32-bit mesh, a slider event then rebuilt the
\* mesh with 16-bit indices, and the next frame is pending.
C10_Witness ==
    /\ lastDraw.drawn /\ lastDraw.type = "UNSIGNED_INT"
    /\ events >= 1 /\ surface.indexType = "UNSIGNED_SHORT"
    /\ gpu.ibo.kind = "u16" /\ rafQueued

====
